---- MODULE Spec2Model ----
(***************************************************************************)
(* Model of src/decay_calculator.py: the DecayCalculator class (a linear   *)
(* decay tracker backed by a CSV log) and the interactive loop of the      *)
(* script.                                                                 *)
(*                                                                         *)
(* Text is modelled as sequences of one-character strings, so that         *)
(* formatting (csv.writer: str(int), repr(float)) and parsing (int(),      *)
(* float(), str.split, str.strip, str.lower) are separate computations.    *)
(* Python floats are modelled as binary floating-point numbers with a      *)
(* Precision-bit significand, round-half-to-even and no exponent limit     *)
(* (CPython's float is the same format with a 53-bit significand).  A      *)
(* finite float is the exact rational n/d it denotes, in lowest terms.     *)
(***************************************************************************)
EXTENDS Integers, Sequences, FiniteSets, TLC

\* ------------------------------------------------------------------ bounds

\* Bits of the significand of a float.
Precision == 11

\* Most rows (header included) the log may hold before observations stop
\* being added.
MaxRows == 3

\* -------------------------------------------------------------- arithmetic

Abs(i) == IF i < 0 THEN -i ELSE i

RECURSIVE Gcd(_, _)
Gcd(a, b) == IF b = 0 THEN a ELSE Gcd(b, a % b)

RECURSIVE Pow2(_)
Pow2(k) == IF k = 0 THEN 1 ELSE 2 * Pow2(k - 1)

RECURSIVE Pow10(_)
Pow10(k) == IF k = 0 THEN 1 ELSE 10 * Pow10(k - 1)

\* ------------------------------------------------------------------ floats

\* A float value: finite (the rational n/d, d > 0, lowest terms), an
\* infinity (n is its sign) or a NaN.  None is Python's None, given the same
\* shape so that it can be compared with a float.
Fin(n, d) == [k |-> "fin", n |-> n, d |-> d]
Inf(s) == [k |-> "inf", n |-> s, d |-> 0]
NaN == [k |-> "nan", n |-> 0, d |-> 0]
None == [k |-> "none", n |-> 0, d |-> 0]

\* The rational n/d (d # 0) in lowest terms with a positive denominator.
Q(n, d) ==
    LET g == Gcd(Abs(n), Abs(d))
        s == IF d < 0 THEN -1 ELSE 1
    IN Fin((s * n) \div g, (s * d) \div g)

\* a/d (a >= 0, d > 0) rounded to the nearest integer, ties to even.
RoundHalfEven(a, d) ==
    LET q == a \div d
        r == a % d
    IN IF 2 * r < d THEN q
       ELSE IF 2 * r > d THEN q + 1
       ELSE IF q % 2 = 0 THEN q ELSE q + 1

\* The float nearest to (a/d) * (mul/div), for a > 0: a/d is scaled by powers
\* of two into [2^(Precision-1), 2^Precision), rounded to an integer
\* significand, and scaled back.
SigMin == Pow2(Precision - 1)
SigMax == Pow2(Precision)
RECURSIVE RoundMag(_, _, _, _)
RoundMag(a, d, mul, div) ==
    IF a \div d >= SigMax
    THEN IF a % 2 = 0 THEN RoundMag(a \div 2, d, 2 * mul, div)
                      ELSE RoundMag(a, 2 * d, 2 * mul, div)
    ELSE IF a \div d < SigMin
    THEN IF d % 2 = 0 THEN RoundMag(a, d \div 2, mul, 2 * div)
                      ELSE RoundMag(2 * a, d, mul, 2 * div)
    ELSE Q(RoundHalfEven(a, d) * mul, div)

\* The rational n/d (d > 0) rounded to a float.
Round(n, d) ==
    IF n = 0 THEN Fin(0, 1)
    ELSE LET r == RoundMag(Abs(n), d, 1, 1)
         IN IF n < 0 THEN Fin(-r.n, r.d) ELSE r

\* float(i) for an int i.
IntToFloat(i) == Round(i, 1)

\* Float operations on finite operands: the exact result, rounded.
FNeg(x) == Fin(-x.n, x.d)
FAdd(x, y) == Round(x.n * y.d + y.n * x.d, x.d * y.d)
FMul(x, y) == Round(x.n * y.n, x.d * y.d)
FDiv(x, y) == IF y.n < 0 THEN Round(-(x.n * y.d), x.d * (-y.n))
                         ELSE Round(x.n * y.d, x.d * y.n)
FLess(x, y) == x.n * y.d < y.n * x.d

\* -------------------------------------------------------------------- text

\* A string is a sequence of one-character strings.
DigitChars == <<"0", "1", "2", "3", "4", "5", "6", "7", "8", "9">>
UpperChars == <<"A", "C", "E", "F", "I", "N", "T", "X", "Y">>
LowerChars == <<"a", "c", "e", "f", "i", "n", "t", "x", "y">>

Range(s) == {s[i] : i \in DOMAIN s}
IsDigit(c) == c \in Range(DigitChars)
DigitVal(c) == (CHOOSE i \in DOMAIN DigitChars : DigitChars[i] = c) - 1
AllDigits(s) == \A i \in DOMAIN s : IsDigit(s[i])

\* str.lower and str.upper, on the letters the inputs are made of.
LowerChar(c) ==
    IF c \in Range(UpperChars)
    THEN LowerChars[CHOOSE i \in DOMAIN UpperChars : UpperChars[i] = c]
    ELSE c
UpperChar(c) ==
    IF c \in Range(LowerChars)
    THEN UpperChars[CHOOSE i \in DOMAIN LowerChars : LowerChars[i] = c]
    ELSE c
Lower(s) == [i \in DOMAIN s |-> LowerChar(s[i])]
Upper(s) == [i \in DOMAIN s |-> UpperChar(s[i])]

\* str.strip: the string without its leading and trailing blanks.
RECURSIVE Strip(_)
Strip(s) ==
    IF s = <<>> THEN s
    ELSE IF Head(s) = " " THEN Strip(Tail(s))
    ELSE IF s[Len(s)] = " " THEN Strip(SubSeq(s, 1, Len(s) - 1))
    ELSE s

\* str.split(sep): the fields between the separators (always at least one).
RECURSIVE Split(_, _)
Split(s, sep) ==
    IF \A i \in DOMAIN s : s[i] # sep THEN <<s>>
    ELSE LET i == CHOOSE j \in DOMAIN s :
                      s[j] = sep /\ \A h \in 1..(j - 1) : s[h] # sep
         IN <<SubSeq(s, 1, i - 1)>> \o Split(SubSeq(s, i + 1, Len(s)), sep)

\* str(n) for an int n.
RECURSIVE NatStr(_)
NatStr(n) ==
    IF n < 10 THEN <<DigitChars[n + 1]>>
    ELSE NatStr(n \div 10) \o <<DigitChars[(n % 10) + 1]>>
IntStr(i) == IF i < 0 THEN <<"-">> \o NatStr(-i) ELSE NatStr(i)

\* The number a string of digits denotes (0 for the empty string).
RECURSIVE DigitsVal(_)
DigitsVal(s) ==
    IF s = <<>> THEN 0
    ELSE 10 * DigitsVal(SubSeq(s, 1, Len(s) - 1)) + DigitVal(s[Len(s)])

\* The decimal digits of r/d (0 < r < d) where the expansion is finite.
RECURSIVE FracDigits(_, _)
FracDigits(r, d) ==
    IF r = 0 THEN <<>>
    ELSE <<DigitChars[((10 * r) \div d) + 1]>> \o FracDigits((10 * r) % d, d)

\* repr(x) of a finite float, as csv.writer writes it, for the values whose
\* shortest round-tripping decimal is their exact expansion in positional
\* notation (integers and binary fractions of moderate size).
FloatRepr(x) ==
    LET a == Abs(x.n)
        frac == FracDigits(a % x.d, x.d)
    IN (IF x.n < 0 THEN <<"-">> ELSE <<>>)
       \o NatStr(a \div x.d) \o <<".">>
       \o (IF frac = <<>> THEN <<"0">> ELSE frac)

\* A string without its sign, and the sign.
Unsigned(s) == IF s # <<>> /\ Head(s) \in {"+", "-"} THEN Tail(s) ELSE s
SignOf(s) == IF s # <<>> /\ Head(s) = "-" THEN -1 ELSE 1

\* int(s) for a string s: blanks around an optionally signed run of digits;
\* ok is FALSE where int raises ValueError.
ParseInt(s) ==
    LET body == Unsigned(Strip(s))
    IN IF body # <<>> /\ AllDigits(body)
       THEN [ok |-> TRUE, v |-> SignOf(Strip(s)) * DigitsVal(body)]
       ELSE [ok |-> FALSE, v |-> 0]

\* float(s) for a string s: blanks around an optionally signed decimal
\* (digits with at most one point and at least one digit), or inf, infinity
\* or nan in any case; the value is rounded to a float.  ok is FALSE where
\* float raises ValueError.  Exponents and digit separators are not in the
\* alphabet of the inputs.
ParseFloat(s) ==
    LET t == Strip(s)
        body == Lower(Unsigned(t))
        parts == Split(body, ".")
        ip == parts[1]
        fp == IF Len(parts) = 2 THEN parts[2] ELSE <<>>
    IN IF body \in {<<"i", "n", "f">>, <<"i", "n", "f", "i", "n", "i", "t", "y">>}
       THEN [ok |-> TRUE, v |-> Inf(SignOf(t))]
       ELSE IF body = <<"n", "a", "n">>
       THEN [ok |-> TRUE, v |-> NaN]
       ELSE IF /\ Len(parts) <= 2
               /\ AllDigits(ip) /\ AllDigits(fp)
               /\ Len(ip) + Len(fp) > 0
       THEN [ok |-> TRUE,
             v |-> Round(SignOf(t) * (DigitsVal(ip) * Pow10(Len(fp)) + DigitsVal(fp)),
                         Pow10(Len(fp)))]
       ELSE [ok |-> FALSE, v |-> None]

\* int(x) for a float x: truncation toward zero; OverflowError for an
\* infinity and ValueError for a NaN.
IntOfFloat(x) ==
    IF x.k = "inf" THEN [raised |-> "OverflowError", v |-> 0]
    ELSE IF x.k = "nan" THEN [raised |-> "ValueError", v |-> 0]
    ELSE [raised |-> "none",
          v |-> IF x.n < 0 THEN -((-x.n) \div x.d) ELSE x.n \div x.d]

\* ------------------------------------------------------------------ inputs

\* The year range of the script, and the ranges a caller constructs with.
MainRange == <<1836, 1936>>
Ranges == {<<1836, 1936>>, <<1836, 1900>>}

\* The observations (year, value) a caller passes to add_data_point, and the
\* years it passes to calculate_value.
Observations ==
    { <<1836, IntToFloat(100)>>, <<1886, IntToFloat(50)>>,
      <<1900, IntToFloat(10)>>, <<1936, IntToFloat(55)>>,
      <<1835, IntToFloat(50)>>, <<1937, IntToFloat(10)>> }
Years == {1836, 1886, 1936}

Modes == {"CONTINUE", "NEW"}

\* The answers typed at the CONTINUE/NEW prompt.
Answers == {<<"c", " ">>, <<"n">>}

\* The lines typed at the year/value prompt.
Sep == <<",", " ">>
InputLines ==
    { <<" ", "E", "x", "i", "t">>,
      IntStr(1836) \o Sep \o IntStr(100),
      IntStr(1886) \o <<",">> \o <<"5", "0", ".", "0">>,
      <<"1", "9", "3", "6", ".", "5">> \o Sep \o IntStr(55),
      IntStr(1937) \o Sep \o IntStr(50),
      IntStr(1850),
      <<"a", "b", "c">> \o Sep \o IntStr(1),
      <<"i", "n", "f">> \o Sep \o IntStr(10),
      <<"n", "a", "n">> \o Sep \o IntStr(10) }

\* ------------------------------------------------------------ the log file

\* The content of output_file: whether the file exists, and its rows as
\* csv.reader returns them (a row is the sequence of its fields).  The fields
\* the program writes hold no delimiter, quote or line break, so csv.writer
\* and csv.reader map rows to lines and back without quoting.
NoFile == [exists |-> FALSE, rows |-> <<>>]
File(rows) == [exists |-> TRUE, rows |-> rows]

Header == << <<"Y", "e", "a", "r">>, <<"V", "a", "l", "u", "e">> >>

\* writer.writerow([year, value]) for an int year and a float value.
Row(year, value) == <<IntStr(year), FloatRepr(value)>>

\* open(output_file, "a") and one writerow: the file is created when absent.
AppendRow(file, row) == File(Append(file.rows, row))

\* (int(row[0]), float(row[1])) for one row of the reader; ok is FALSE where
\* the expression raises (IndexError, ValueError).
ParseRow(row) ==
    IF Len(row) < 2 THEN [ok |-> FALSE, pair |-> <<0, None>>]
    ELSE LET y == ParseInt(row[1])
             v == ParseFloat(row[2])
         IN IF y.ok /\ v.ok THEN [ok |-> TRUE, pair |-> <<y.v, v.v>>]
            ELSE [ok |-> FALSE, pair |-> <<0, None>>]

\* ------------------------------------------------------- DecayCalculator

\* A DecayCalculator object.
Object(sy, ey, pairs, iv, sl) ==
    [start_year |-> sy, end_year |-> ey, year_value_pairs |-> pairs,
     initial_value |-> iv, slope |-> sl]

\* -self.initial_value / (self.end_year - self.start_year)
SlopeOf(iv, sy, ey) == FDiv(FNeg(iv), IntToFloat(ey - sy))

\* _load_existing_data anchoring the model at the last row instead of the
\* first.
load_existing_data_AnchorLast(self, file) ==
    IF ~file.exists
    THEN [self |-> self, printed |-> "No existing file found"]
    ELSE IF file.rows = <<>>
    THEN [self |-> self, printed |-> "Error loading file"]
    ELSE LET rows == Tail(file.rows)
         IN IF \E i \in DOMAIN rows : ~ParseRow(rows[i]).ok
            THEN [self |-> self, printed |-> "Error loading file"]
            ELSE LET pairs == [i \in DOMAIN rows |-> ParseRow(rows[i]).pair]
                     iv == IF pairs # <<>> THEN pairs[Len(pairs)][2]
                           ELSE self.initial_value
                     sl == IF pairs # <<>>
                           THEN SlopeOf(iv, self.start_year, self.end_year)
                           ELSE self.slope
                 IN [self |-> Object(self.start_year, self.end_year, pairs, iv, sl),
                     printed |-> "Loaded"]

\* _load_existing_data appending row by row, so that the rows before an
\* unparseable one stay in the list.
load_existing_data_KeepPrefix(self, file) ==
    IF ~file.exists
    THEN [self |-> self, printed |-> "No existing file found"]
    ELSE IF file.rows = <<>>
    THEN [self |-> self, printed |-> "Error loading file"]
    ELSE LET rows == Tail(file.rows)
             bad == {i \in DOMAIN rows : ~ParseRow(rows[i]).ok}
             good == IF bad = {} THEN Len(rows)
                     ELSE (CHOOSE i \in bad : \A j \in bad : i <= j) - 1
             pairs == [i \in 1..good |-> ParseRow(rows[i]).pair]
         IN IF bad # {}
            THEN [self |-> [self EXCEPT !.year_value_pairs = pairs],
                  printed |-> "Error loading file"]
            ELSE LET iv == IF pairs # <<>> THEN pairs[1][2] ELSE self.initial_value
                     sl == IF pairs # <<>>
                           THEN SlopeOf(iv, self.start_year, self.end_year)
                           ELSE self.slope
                 IN [self |-> Object(self.start_year, self.end_year, pairs, iv, sl),
                     printed |-> "Loaded"]

\* _load_existing_data: the object after the call and the message printed.
\* The list comprehension assigns year_value_pairs only when every row
\* parsed; any exception leaves the object as __init__ set it.
load_existing_data(self, file) ==
    IF ~file.exists
    THEN [self |-> self, printed |-> "No existing file found"]
    ELSE IF file.rows = <<>>
    THEN [self |-> self, printed |-> "Error loading file"]
    ELSE LET rows == Tail(file.rows)
         IN IF \E i \in DOMAIN rows : ~ParseRow(rows[i]).ok
            THEN [self |-> self, printed |-> "Error loading file"]
            ELSE LET pairs == [i \in DOMAIN rows |-> ParseRow(rows[i]).pair]
                     iv == IF pairs # <<>> THEN pairs[1][2] ELSE self.initial_value
                     sl == IF pairs # <<>>
                           THEN SlopeOf(iv, self.start_year, self.end_year)
                           ELSE self.slope
                 IN [self |-> Object(self.start_year, self.end_year, pairs, iv, sl),
                     printed |-> "Loaded"]

\* __init__: the object, the file after the call and the message printed.
init(sy, ey, continue_or_new, file) ==
    LET self == Object(sy, ey, <<>>, None, None)
    IN IF continue_or_new = "CONTINUE"
       THEN LET r == load_existing_data(self, file)
            IN [self |-> r.self, file |-> file, printed |-> r.printed]
       ELSE [self |-> self, file |-> File(<<Header>>), printed |-> "none"]

\* calculate_value measuring the year from 0 instead of from start_year.
calculate_value_NoOffset(self, year) ==
    IF self.slope = None
    THEN [raised |-> "ValueError", result |-> None]
    ELSE [raised |-> "none",
          result |-> FAdd(self.initial_value,
                          FMul(self.slope, IntToFloat(year)))]

\* calculate_value: the exception raised, or the value returned.
calculate_value(self, year) ==
    IF self.slope = None
    THEN [raised |-> "ValueError", result |-> None]
    ELSE [raised |-> "none",
          result |-> FAdd(self.initial_value,
                          FMul(self.slope, IntToFloat(year - self.start_year)))]

\* add_data_point, lines 66-72: the first value given anchors the model.
anchor(self, value) ==
    IF self.initial_value = None
    THEN [self EXCEPT !.initial_value = value,
                      !.slope = SlopeOf(value, self.start_year, self.end_year)]
    ELSE self

\* add_data_point, lines 74-78: the pair is appended to the list and its row
\* to the file.
save(self, file, year, value) ==
    [self |-> [self EXCEPT !.year_value_pairs = Append(@, <<year, value>>)],
     file |-> AppendRow(file, Row(year, value))]

\* add_data_point, lines 80-91: the expected value and the recommendation.
feedback(self, year, value) ==
    LET expected == calculate_value(self, year)
    IN IF expected.raised # "none"
       THEN [raised |-> expected.raised, printed |-> "none", result |-> None]
       ELSE [raised |-> "none",
             printed |-> IF FLess(value, expected.result) THEN "Amortize decay"
                         ELSE IF FLess(expected.result, value) THEN "Speed up decay"
                         ELSE "Decay is on track",
             result |-> expected.result]

\* add_data_point anchoring the model before it checks the year.
add_data_point_InitFirst(self, file, year, value) ==
    IF ~(self.start_year <= year /\ year <= self.end_year)
    THEN [self |-> anchor(self, value), file |-> file, raised |-> "ValueError",
          printed |-> "none", result |-> None]
    ELSE LET saved == save(anchor(self, value), file, year, value)
             said == feedback(saved.self, year, value)
         IN [self |-> saved.self, file |-> saved.file, raised |-> said.raised,
             printed |-> said.printed, result |-> said.result]

\* add_data_point anchoring the model at every call.
add_data_point_Reanchor(self, file, year, value) ==
    IF ~(self.start_year <= year /\ year <= self.end_year)
    THEN [self |-> self, file |-> file, raised |-> "ValueError",
          printed |-> "none", result |-> None]
    ELSE LET fresh == [self EXCEPT !.initial_value = None, !.slope = None]
             saved == save(anchor(fresh, value), file, year, value)
             said == feedback(saved.self, year, value)
         IN [self |-> saved.self, file |-> saved.file, raised |-> said.raised,
             printed |-> said.printed, result |-> said.result]

\* add_data_point with the two recommendations exchanged.
add_data_point_Swapped(self, file, year, value) ==
    IF ~(self.start_year <= year /\ year <= self.end_year)
    THEN [self |-> self, file |-> file, raised |-> "ValueError",
          printed |-> "none", result |-> None]
    ELSE LET saved == save(anchor(self, value), file, year, value)
             said == feedback(saved.self, year, value)
         IN [self |-> saved.self, file |-> saved.file, raised |-> said.raised,
             printed |-> IF said.printed = "Amortize decay" THEN "Speed up decay"
                         ELSE IF said.printed = "Speed up decay" THEN "Amortize decay"
                         ELSE said.printed,
             result |-> said.result]

\* add_data_point: the object and the file after the call, the exception
\* raised, the recommendation printed and the expected value computed.
\* plot_decay, called last, reads the object and changes nothing.
add_data_point(self, file, year, value) ==
    IF ~(self.start_year <= year /\ year <= self.end_year)
    THEN [self |-> self, file |-> file, raised |-> "ValueError",
          printed |-> "none", result |-> None]
    ELSE LET saved == save(anchor(self, value), file, year, value)
             said == feedback(saved.self, year, value)
         IN [self |-> saved.self, file |-> saved.file, raised |-> said.raised,
             printed |-> said.printed, result |-> said.result]

\* The arguments of a call, as the model records them; NoArg when the step
\* made no call of add_data_point or calculate_value.
Arg(year, value) == [year |-> year, value |-> value]
NoArg == Arg(0, None)

\* One pass of the script's while loop on the line typed: the position of the
\* script afterwards, the object and the file, the exception raised inside
\* the try block (ValueError is caught and reported, anything else leaves the
\* loop), the message printed, and the arguments add_data_point got.
loop_body(self, file, line) ==
    LET user_input == Strip(line)
        fields == Split(user_input, ",")
        floats == [i \in DOMAIN fields |-> ParseFloat(fields[i])]
        stay == [pc |-> "loop", self |-> self, file |-> file, raised |-> "none",
                 printed |-> "none", result |-> None, arg |-> NoArg]
        invalid == [stay EXCEPT !.raised = "ValueError", !.printed = "Invalid input"]
    IN IF Lower(user_input) = <<"e", "x", "i", "t">>
       THEN [stay EXCEPT !.pc = "exited"]
       ELSE IF Len(fields) # 2 \/ \E i \in DOMAIN floats : ~floats[i].ok
       THEN invalid
       ELSE LET year == IntOfFloat(floats[1].v)
                value == floats[2].v
            IN IF year.raised = "ValueError" THEN invalid
               ELSE IF year.raised # "none"
               THEN [stay EXCEPT !.pc = "crashed", !.raised = year.raised]
               ELSE LET r == add_data_point(self, file, year.v, value)
                    IN [pc |-> "loop", self |-> r.self, file |-> r.file,
                        raised |-> r.raised,
                        printed |-> IF r.raised = "ValueError"
                                    THEN "Invalid input" ELSE r.printed,
                        result |-> r.result, arg |-> Arg(year.v, value)]

\* ------------------------------------------------------------------- state

VARIABLES
    output_file,        \* the content of the log file at the storage path
    pc,                 \* "none": no tracker yet; "api": a caller holds a
                        \* tracker; "loop": the script is at its prompt;
                        \* "exited": the script left its loop on exit;
                        \* "crashed": an exception ended the script
    start_year, end_year, year_value_pairs, initial_value, slope,
                        \* the fields of the DecayCalculator object
    user_input,         \* the line the loop read last, stripped
    op,                 \* the operation of the last step
    arg,                \* the arguments of the call the last step made
    raised,             \* the exception the last call raised
    printed,            \* the message the last step printed
    result,             \* the expected value the last step computed
    added               \* the observations add_data_point accepted since the
                        \* file was last created, in order

object == <<start_year, end_year, year_value_pairs, initial_value, slope>>
vars == <<output_file, pc, start_year, end_year, year_value_pairs,
          initial_value, slope, user_input, op, arg, raised, printed, result,
          added>>

Self == Object(start_year, end_year, year_value_pairs, initial_value, slope)

\* The object and the file become those of r.
Becomes(r) ==
    /\ start_year' = r.self.start_year
    /\ end_year' = r.self.end_year
    /\ year_value_pairs' = r.self.year_value_pairs
    /\ initial_value' = r.self.initial_value
    /\ slope' = r.self.slope
    /\ output_file' = r.file

\* The observations accepted since the file was last created, after a call
\* of __init__ in the given mode.
AddedAfterInit(continue_or_new) == IF continue_or_new = "NEW" THEN <<>> ELSE added

\* The same after a call add_data_point(year, value) that ended as r did.
AddedAfterCall(r, a) ==
    IF r.file # output_file THEN Append(added, <<a.year, a.value>>) ELSE added
\* A step may add a row only while the log has room.
Room(file) == file = output_file \/ Len(output_file.rows) < MaxRows

\* Logs found at the storage path when the first tracker is constructed:
\* well-formed ones, and ones no tracker wrote.
PreLogs ==
    { NoFile,
      File(<<>>),
      File(<<Header>>),
      File(<<Header, Row(1836, IntToFloat(100)), Row(1886, IntToFloat(50))>>),
      File(<<Header, Row(1936, IntToFloat(55))>>),
      File(<<Header, << <<" ", "1", "9", "0", "0">>, <<"1", "0">> >> >>),
      File(<<Header, Row(1836, IntToFloat(100)), <<IntStr(1850)>> >>),
      File(<<Header, Row(1836, IntToFloat(100)), <<>> >>),
      File(<<Header, <<<<"a", "b", "c">>, <<"1">> >>, Row(1836, IntToFloat(100))>>),
      File(<<Header, Row(1836, IntToFloat(100)),
             << <<"1", "8", "8", "6", ".", "5">>, <<"5", "0", ".", "0">> >> >>),
      File(<<Header, Row(1886, IntToFloat(50)),
             << IntStr(1900), <<"1", "0", ".", "x">> >> >>) }

InitWith(file) ==
    /\ output_file = file
    /\ pc = "none"
    /\ start_year = 0
    /\ end_year = 0
    /\ year_value_pairs = <<>>
    /\ initial_value = None
    /\ slope = None
    /\ user_input = <<>>
    /\ op = "start"
    /\ arg = NoArg
    /\ raised = "none"
    /\ printed = "none"
    /\ result = None
    /\ added = <<>>

\* No log exists before the first tracker.
Init == InitWith(NoFile)

\* Some log, or none, exists before the first tracker.
InitPre == \E file \in PreLogs : InitWith(file)

\* A caller constructs a DecayCalculator.
Construct(sy, ey, continue_or_new) ==
    /\ pc # "loop"
    /\ \E r \in {init(sy, ey, continue_or_new, output_file)} :
          /\ Becomes(r)
          /\ printed' = r.printed
    /\ pc' = "api"
    /\ op' = continue_or_new
    /\ arg' = NoArg
    /\ raised' = "none"
    /\ result' = None
    /\ added' = AddedAfterInit(continue_or_new)
    /\ UNCHANGED user_input

\* A caller calls add_data_point.
AddDataPoint(year, value) ==
    /\ pc = "api"
    /\ \E r \in {add_data_point(Self, output_file, year, value)} :
          /\ Room(r.file)
          /\ Becomes(r)
          /\ raised' = r.raised
          /\ printed' = r.printed
          /\ result' = r.result
          /\ added' = AddedAfterCall(r, Arg(year, value))
    /\ op' = "add"
    /\ arg' = Arg(year, value)
    /\ UNCHANGED <<pc, user_input>>

\* A caller calls calculate_value.
CalculateValue(year) ==
    /\ pc = "api"
    /\ \E r \in {calculate_value(Self, year)} :
          /\ raised' = r.raised
          /\ result' = r.result
    /\ op' = "calc"
    /\ arg' = Arg(year, None)
    /\ printed' = "none"
    /\ UNCHANGED <<output_file, pc, object, user_input, added>>

\* The script starts: it asks CONTINUE or NEW and constructs its tracker.
Main(answer) ==
    /\ pc # "loop"
    /\ \E continue_or_new \in {IF Upper(Strip(answer)) = <<"C">>
                                THEN "CONTINUE" ELSE "NEW"} :
          /\ \E r \in {init(MainRange[1], MainRange[2], continue_or_new,
                             output_file)} :
                /\ Becomes(r)
                /\ printed' = r.printed
          /\ op' = continue_or_new
          /\ added' = AddedAfterInit(continue_or_new)
    /\ pc' = "loop"
    /\ arg' = NoArg
    /\ raised' = "none"
    /\ result' = None
    /\ UNCHANGED user_input

\* The script reads a line at its prompt.
Prompt(line) ==
    /\ pc = "loop"
    /\ \E r \in {loop_body(Self, output_file, line)} :
          /\ Room(r.file)
          /\ Becomes(r)
          /\ pc' = r.pc
          /\ raised' = r.raised
          /\ printed' = r.printed
          /\ result' = r.result
          /\ arg' = r.arg
          /\ added' = AddedAfterCall(r, r.arg)
    /\ user_input' = Strip(line)
    /\ op' = "input"

Next ==
    \/ \E range \in Ranges, mode \in Modes : Construct(range[1], range[2], mode)
    \/ \E o \in Observations : AddDataPoint(o[1], o[2])
    \/ \E year \in Years : CalculateValue(year)
    \/ \E answer \in Answers : Main(answer)
    \/ \E line \in InputLines : Prompt(line)

Spec == Init /\ [][Next]_vars

SpecPre == InitPre /\ [][Next]_vars

\* ------------------------------------------------------------------ claims

\* The last step called add_data_point (directly, or from the loop).
AddCalled == op = "add" \/ (op = "input" /\ arg.value # None)

InRange(year) == start_year <= year /\ year <= end_year

\* The float nearest to -iv / (ey - sy).
NearestSlope(iv, sy, ey) == Round(-iv.n, iv.d * (ey - sy))

\* The exact comparison of two finite floats.
Below(x, y) == x.n * y.d < y.n * x.d

\* C1: a tracker constructed in CONTINUE mode, at the same path and with the
\* same year range as the tracker before it, holds the same observations in
\* the same order and the same initial_value and slope.
C1_RoundTrip ==
    [][(/\ op' = "CONTINUE"
        /\ pc # "none"
        /\ start_year' = start_year
        /\ end_year' = end_year)
       => (/\ year_value_pairs' = year_value_pairs
           /\ initial_value' = initial_value
           /\ slope' = slope)]_vars

\* C2: add_data_point with a year outside [start_year, end_year] raises
\* ValueError and leaves the observations, the model and the file as they
\* were.
C2_RejectedAddChangesNothing ==
    [][((op' = "add" \/ (op' = "input" /\ arg'.value # None))
        /\ ~(start_year <= arg'.year /\ arg'.year <= end_year))
       => (/\ raised' = "ValueError"
           /\ year_value_pairs' = year_value_pairs
           /\ initial_value' = initial_value
           /\ slope' = slope
           /\ output_file' = output_file)]_vars

\* C2 witness: a call with a year out of range was rejected on a tracker
\* whose model is not initialized.
C2_Witness ==
    /\ AddCalled
    /\ ~InRange(arg.year)
    /\ raised = "ValueError"
    /\ initial_value = None
    /\ output_file.exists

\* C3: when the file exists, its first row is the header and the rows after
\* it are the two-field rows of the observations added, in order.
C3_LogFormat ==
    output_file.exists =>
        /\ output_file.rows # <<>>
        /\ output_file.rows[1] = Header
        /\ Len(output_file.rows) = Len(added) + 1
        /\ \A i \in DOMAIN added :
               /\ Len(output_file.rows[i + 1]) = 2
               /\ output_file.rows[i + 1] = Row(added[i][1], added[i][2])

\* C4: the first accepted add_data_point on an uninitialized model sets
\* initial_value to its value and slope to -initial_value / (end_year -
\* start_year); once the model is initialized no step of the session short of
\* a new construction changes initial_value or slope.
C4_AnchoredOnce ==
    [][/\ ((op' = "add" \/ (op' = "input" /\ arg'.value # None))
           /\ raised' = "none" /\ initial_value = None)
          => (/\ initial_value' = arg'.value
              /\ slope' = NearestSlope(arg'.value, start_year, end_year))
       /\ (initial_value # None /\ op' \notin {"CONTINUE", "NEW"})
          => (/\ initial_value' = initial_value
              /\ slope' = slope
              /\ slope # None)]_vars

\* C4 witness: the first observation was not at start_year, and a later
\* accepted one with another value left the model anchored at the first.
C4_Witness ==
    /\ AddCalled
    /\ raised = "none"
    /\ Len(year_value_pairs) = 2
    /\ year_value_pairs = added
    /\ year_value_pairs[1][1] # start_year
    /\ year_value_pairs[2][2] # year_value_pairs[1][2]
    /\ initial_value = year_value_pairs[1][2]

\* A row of two fields, an integer year and a finite real value.
ValidRow(row) ==
    /\ Len(row) = 2
    /\ ParseInt(row[1]).ok
    /\ ParseFloat(row[2]).ok
    /\ ParseFloat(row[2]).v.k = "fin"

\* C5: a tracker constructed in CONTINUE mode on a header followed by N valid
\* rows holds exactly the N observations of the rows, in file order; if N > 0
\* the model is anchored at the first row's value, and if N = 0 it is
\* uninitialized.
C5_ReloadValidRows ==
    (/\ op = "CONTINUE"
     /\ output_file.exists
     /\ output_file.rows # <<>>
     /\ output_file.rows[1] = Header
     /\ \A i \in 2..Len(output_file.rows) : ValidRow(output_file.rows[i]))
    => LET rows == Tail(output_file.rows)
       IN /\ Len(year_value_pairs) = Len(rows)
          /\ \A i \in DOMAIN rows :
                 year_value_pairs[i] =
                     <<ParseInt(rows[i][1]).v, ParseFloat(rows[i][2]).v>>
          /\ IF rows # <<>>
             THEN /\ initial_value = ParseFloat(rows[1][2]).v
                  /\ slope = NearestSlope(initial_value, start_year, end_year)
             ELSE /\ initial_value = None
                  /\ slope = None

\* C5 witness: a log of a header and two rows with different values was
\* reloaded.
C5_Witness ==
    /\ op = "CONTINUE"
    /\ output_file = File(<<Header, Row(1836, IntToFloat(100)),
                            Row(1886, IntToFloat(50))>>)
    /\ year_value_pairs = << <<1836, IntToFloat(100)>>, <<1886, IntToFloat(50)>> >>
    /\ initial_value = IntToFloat(100)

\* C6: every observation in year_value_pairs has its year in
\* [start_year, end_year].
C6_YearsInRange ==
    pc # "none" =>
        \A i \in DOMAIN year_value_pairs : InRange(year_value_pairs[i][1])

\* A row for which (int(row[0]), float(row[1])) raises.
Unparseable(row) ==
    \/ Len(row) < 2
    \/ ~ParseInt(row[1]).ok
    \/ ~ParseFloat(row[2]).ok

\* C7: construction in CONTINUE mode on a log with an unparseable row after
\* its first row ends with no observations and an uninitialized model, and
\* leaves the file as it was.
C7_ParseFailureStartsFresh ==
    [][(/\ op' = "CONTINUE"
        /\ output_file.exists
        /\ \E i \in 2..Len(output_file.rows) : Unparseable(output_file.rows[i]))
       => (/\ year_value_pairs' = <<>>
           /\ initial_value' = None
           /\ slope' = None
           /\ output_file' = output_file)]_vars

\* C7 witness: the unparseable row came after a valid one.
C7_Witness ==
    /\ op = "CONTINUE"
    /\ printed = "Error loading file"
    /\ Len(output_file.rows) >= 3
    /\ ValidRow(output_file.rows[2])
    /\ Unparseable(output_file.rows[3])
    /\ year_value_pairs = <<>>
    /\ initial_value = None

\* What both readings of C8 say of calculate_value(year): no state changes;
\* on an uninitialized model ValueError is raised; on an initialized one the
\* value is initial_value + slope * (year - start_year) in float arithmetic,
\* which at start_year is initial_value.
C8_Common ==
    /\ UNCHANGED <<output_file, object>>
    /\ slope = None => (raised' = "ValueError" /\ result' = None)
    /\ slope # None =>
          /\ raised' = "none"
          /\ result' = FAdd(initial_value,
                            FMul(slope, IntToFloat(arg'.year - start_year)))
          /\ arg'.year = start_year => result' = initial_value

C9_Recommendation ==
    (AddCalled /\ raised = "none") =>
        /\ printed \in {"Amortize decay", "Speed up decay", "Decay is on track"}
        /\ result = FAdd(initial_value,
                         FMul(slope, IntToFloat(arg.year - start_year)))
        /\ Below(arg.value, result) => printed = "Amortize decay"
        /\ Below(result, arg.value) => printed = "Speed up decay"
        /\ arg.value = result => printed = "Decay is on track"
        /\ (/\ <<start_year, end_year>> = <<1836, 1936>>
            /\ initial_value = IntToFloat(100)
            /\ year_value_pairs[1] = <<1836, IntToFloat(100)>>)
           => /\ arg = Arg(1886, IntToFloat(50)) => printed = "Decay is on track"
              /\ arg = Arg(1900, IntToFloat(10)) =>
                     (printed = "Amortize decay" /\ result = IntToFloat(36))

\* C9 witness: the second scenario, after the first observation (1836, 100).
C9_Witness ==
    /\ AddCalled
    /\ raised = "none"
    /\ year_value_pairs = << <<1836, IntToFloat(100)>>, <<1900, IntToFloat(10)>> >>
    /\ printed = "Amortize decay"

\* C10: a line that is not the exit keyword leaves the script at its prompt,
\* reported as invalid when it raised; the loop ends only on the exit
\* keyword.
C10_LoopSurvivesInput ==
    /\ pc # "crashed"
    /\ op = "input" =>
          IF Lower(user_input) = <<"e", "x", "i", "t">>
          THEN pc = "exited"
          ELSE /\ pc = "loop"
               /\ raised # "none" => printed = "Invalid input"

====
